---- MODULE Spec2Model ----
(***************************************************************************)
(* A model of build_html_toc.py: the column resolver (find_col), the row   *)
(* grouper (read_rows), the cluster metadata reader (read_cluster_info),   *)
(* the renderer (build_html) and the run of main.                          *)
(*                                                                         *)
(* A Python str is a sequence of one-character strings, so that strip,     *)
(* lower, split, startswith and the substring test are computed character  *)
(* by character.  None is a value that is no such sequence.                *)
(***************************************************************************)
EXTENDS Integers, Sequences, FiniteSets, TLC

VARIABLES
    pc,             \* position of the run of main
    input_exists,   \* csv_path.exists()
    fieldnames,     \* rdr.fieldnames of the input CSV
    cols,           \* name_col, tag_col, url_col, chars_col of read_rows
    rows,           \* the rows the DictReader has yielded so far, in order
    by_cluster,     \* the OrderedDict of read_rows: a sequence of [label, items]
    meta,           \* the optional metadata file as read_cluster_info found it
    cluster_info,   \* the dict read_cluster_info returns: label -> [color, desc]
    html,           \* the parts list of build_html
    out_file,       \* the content of tags_list.html
    out_writes,     \* how many times the run has written tags_list.html
    stdout,         \* what the run printed on standard output
    stderr,         \* what the run printed on standard error
    exit_status,    \* the process's exit status, once pc = "done"
    fc_header,      \* find_col alone: its header_row argument
    fc_cands,       \* find_col alone: its candidates argument
    fc_called,      \* find_col alone: whether it has returned
    fc_result       \* find_col alone: the value it returned

vars == <<pc, input_exists, fieldnames, cols, rows, by_cluster, meta,
          cluster_info, html, out_file, out_writes, stdout, stderr,
          exit_status, fc_header, fc_cands, fc_called, fc_result>>

run_vars == <<pc, input_exists, fieldnames, cols, rows, by_cluster, meta,
              cluster_info, html, out_file, out_writes, stdout, stderr,
              exit_status>>

fc_vars == <<fc_header, fc_cands, fc_called, fc_result>>

----------------------------------------------------------------------------
(* Bounds of the model.                                                    *)

MaxHeaderCols == 2      \* columns of a header row given to find_col alone
MaxCandidates == 2      \* candidates given to find_col alone
MaxRows == 3            \* data rows of the input file
MaxMetaRows == 2        \* data rows of the metadata file

----------------------------------------------------------------------------
(* Python values.                                                          *)

None == <<"None">>

Whitespace == {" ", "\t"}

\* str.lower(), one character
LowerChar(c) ==
    CASE c = "A" -> "a" [] c = "B" -> "b" [] c = "C" -> "c" [] c = "D" -> "d"
      [] c = "E" -> "e" [] c = "F" -> "f" [] c = "G" -> "g" [] c = "H" -> "h"
      [] c = "I" -> "i" [] c = "J" -> "j" [] c = "K" -> "k" [] c = "L" -> "l"
      [] c = "M" -> "m" [] c = "N" -> "n" [] c = "O" -> "o" [] c = "P" -> "p"
      [] c = "Q" -> "q" [] c = "R" -> "r" [] c = "S" -> "s" [] c = "T" -> "t"
      [] c = "U" -> "u" [] c = "V" -> "v" [] c = "W" -> "w" [] c = "X" -> "x"
      [] c = "Y" -> "y" [] c = "Z" -> "z" [] OTHER -> c

\* str.lower()
RECURSIVE Lower(_)
Lower(s) ==
    IF s = <<>> THEN <<>> ELSE <<LowerChar(Head(s))>> \o Lower(Tail(s))

\* str.strip(): drops the leading and the trailing whitespace
RECURSIVE LStrip(_)
LStrip(s) ==
    IF s # <<>> /\ Head(s) \in Whitespace THEN LStrip(Tail(s)) ELSE s

RECURSIVE RStrip(_)
RStrip(s) ==
    IF s # <<>> /\ s[Len(s)] \in Whitespace
    THEN RStrip(SubSeq(s, 1, Len(s) - 1)) ELSE s

Strip(s) == RStrip(LStrip(s))

\* Python's `a in b` on two str
IsSubstring(a, b) ==
    \E i \in 0..(Len(b) - Len(a)) : SubSeq(b, i + 1, i + Len(a)) = a

\* str.startswith
StartsWith(s, p) == Len(s) >= Len(p) /\ SubSeq(s, 1, Len(p)) = p

----------------------------------------------------------------------------
(* find_col                                                                *)

\* str(h or "").strip().lower(), and cand.strip().lower()
Normalize(h) == Lower(Strip(h))

\* the keys of the dict `normalized`, in insertion order: a key keeps the
\* place of its first insertion
RECURSIVE NormalizedKeysFrom(_, _)
NormalizedKeysFrom(header_row, seen) ==
    IF header_row = <<>> THEN <<>>
    ELSE LET k == Normalize(Head(header_row))
         IN  IF k \in seen
             THEN NormalizedKeysFrom(Tail(header_row), seen)
             ELSE <<k>> \o NormalizedKeysFrom(Tail(header_row), seen \cup {k})

NormalizedKeys(header_row) == NormalizedKeysFrom(header_row, {})

\* the position in header_row of normalized[k]: a later header with the
\* same key overwrites the value of an earlier one
NormalizedPos(header_row, k) ==
    CHOOSE i \in 1..Len(header_row) :
        /\ Normalize(header_row[i]) = k
        /\ \A j \in (i + 1)..Len(header_row) : Normalize(header_row[j]) # k

\* ResolveCandidate with `key = cand`: the candidate is looked up as given
ResolveCandidate_RawCandidate(keys, cand) ==
    LET hits == {i \in 1..Len(keys) : cand # <<>> /\ IsSubstring(cand, keys[i])}
    IN  IF \E i \in 1..Len(keys) : keys[i] = cand THEN cand
        ELSE IF hits # {}
             THEN keys[CHOOSE i \in hits : \A j \in hits : i <= j]
             ELSE None

\* one turn of `for cand in candidates`: the key of `normalized` the
\* candidate resolves to, or None
ResolveCandidate(keys, cand) ==
    LET key == Normalize(cand)
        hits == {i \in 1..Len(keys) : key # <<>> /\ IsSubstring(key, keys[i])}
    IN  IF \E i \in 1..Len(keys) : keys[i] = key THEN key
        ELSE IF hits # {}
             THEN keys[CHOOSE i \in hits : \A j \in hits : i <= j]
             ELSE None

RECURSIVE ResolveKey(_, _)
ResolveKey(keys, candidates) ==
    IF candidates = <<>> THEN None
    ELSE LET r == ResolveCandidate(keys, Head(candidates))
         IN  IF r # None THEN r ELSE ResolveKey(keys, Tail(candidates))

\* the position in header_row of the header find_col returns; 0 for None
FindColPos(header_row, candidates) ==
    IF header_row = <<>> THEN 0
    ELSE LET k == ResolveKey(NormalizedKeys(header_row), candidates)
         IN  IF k = None THEN 0 ELSE NormalizedPos(header_row, k)

find_col(header_row, candidates) ==
    LET p == FindColPos(header_row, candidates)
    IN  IF p = 0 THEN None ELSE header_row[p]

----------------------------------------------------------------------------
(* The constants of the script.                                            *)

INPUT_NAME ==
    <<"t", "h", "e", "_", "p", "o", "p", "p", "y", "_", "b", "o", "a", "r",
      "d", "_", "v", "7", ".", "c", "s", "v">>
OUTPUT_NAME ==
    <<"t", "a", "g", "s", "_", "l", "i", "s", "t", ".", "h", "t", "m", "l">>
CLUSTER_INFO_NAME ==
    <<"c", "l", "u", "s", "t", "e", "r", "_", "t", "a", "b", "l", "e", ".",
      "c", "s", "v">>
DEFAULT_COLOR == <<"#", "f", "f", "1", "4", "4", "7">>

\* the candidate lists of read_rows
NAME_CANDIDATES ==
    << <<"n", "a", "m", "e">>,
       <<"t", "i", "t", "l", "e">>,
       <<"l", "a", "b", "e", "l">> >>
TAG_CANDIDATES ==
    << <<"t", "a", "g">>,
       <<"t", "a", "g", "s">>,
       <<"c", "a", "t", "e", "g", "o", "r", "y">>,
       <<"c", "l", "u", "s", "t", "e", "r">> >>
URL_CANDIDATES ==
    << <<"c", "o", "n", "t", "e", "n", "t", " ", "u", "r", "l">>,
       <<"u", "r", "l">>,
       <<"l", "i", "n", "k">>,
       <<"h", "r", "e", "f">>,
       <<"p", "e", "r", "m", "a", "l", "i", "n", "k">> >>
CHARS_CANDIDATES ==
    << <<"c", "h", "a", "r", "a", "c", "t", "e", "r", "s">>,
       <<"c", "h", "a", "r", "a", "c", "t", "e", "r">>,
       <<"c", "a", "s", "t">>,
       <<"w", "h", "o">> >>

\* the candidate lists of read_cluster_info
META_NAME_CANDIDATES ==
    << <<"n", "a", "m", "e">>,
       <<"c", "l", "u", "s", "t", "e", "r">>,
       <<"u", "n", "i", "v", "e", "r", "s", "e">> >>
META_COLOR_CANDIDATES ==
    << <<"h", "e", "x", " ", "c", "o", "d", "e", " ", "c", "o", "l", "o", "r">>,
       <<"h", "e", "x">>,
       <<"c", "o", "l", "o", "r">> >>
META_DESC_CANDIDATES ==
    << <<"d", "e", "s", "c", "r", "i", "p", "t", "i", "o", "n">>,
       <<"d", "e", "s", "c">>,
       <<"b", "l", "u", "r", "b">>,
       <<"s", "u", "m", "m", "a", "r", "y">> >>

----------------------------------------------------------------------------
(* The files a run can find.  A CSV file is its header row and its data    *)
(* rows; a data row is a sequence of cells, one per header.                *)

\* the sequences over S of length at most n
RECURSIVE SeqsUpTo(_, _)
SeqsUpTo(S, n) ==
    IF n = 0 THEN {<<>>}
    ELSE LET shorter == SeqsUpTo(S, n - 1)
         IN  shorter \cup {Append(q, x) : q \in shorter, x \in S}

\* the first n cells of a row
Prefix(r, n) == SubSeq(r, 1, n)

\* data rows of the input CSV: Name, Tag, URL and Characters cells
InputRows ==
    { << <<"x">>,
         <<"A">>,
         <<" ", "u", "&", "v", " ">>,
         <<"A", "n", "n", ",", " ", "B", "o", "b", ",", ",", " ",
           "C", "l", "e", "o", " ">> >>,
      << <<" ", "y", " ">>, <<"a">>, <<>>, <<" ">> >>,
      << <<"z">>, <<" ", "A", " ">>, <<" ">>, <<" ", ",", " ">> >>,
      << <<>>, <<"A">>, <<"u">>, <<"p">> >>,
      << <<"w">>, <<" ">>, <<"u">>, <<"p">> >> }

\* header rows of the input CSV: none, no Tag column, no Name column, no
\* URL and Characters columns, all four columns
InputHeaders ==
    { <<>>,
      << <<"N", "a", "m", "e">> >>,
      << <<"F", "o", "o">>, <<"T", "a", "g">> >>,
      << <<" ", "T", "I", "T", "L", "E", " ">>,
         <<"C", "l", "u", "s", "t", "e", "r">> >>,
      << <<"N", "a", "m", "e">>,
         <<"T", "a", "g">>,
         <<"C", "o", "n", "t", "e", "n", "t", " ", "U", "R", "L">>,
         <<"C", "h", "a", "r", "a", "c", "t", "e", "r", "s">> >> }

\* the data rows a file with header row h can hold
RowsFor(h) == {Prefix(r, Len(h)) : r \in InputRows}

\* data rows of the metadata CSV: name, colour and description cells
MetaRows ==
    { << <<"A">>, <<"f", "0", "0">>, <<"d", "<">> >>,
      << <<" ", "A", " ">>, <<" ", "#", "0", "f", "0", " ">>, <<" ">> >>,
      << <<"A">>, <<" ">>, <<"e">> >> }

\* header rows of the metadata CSV, each with the data rows it can hold:
\* no header row, no name column, all three columns, no colour column
MetaLayouts ==
    { [fieldnames |-> <<>>,
       rows |-> {}],
      [fieldnames |-> << <<"C", "o", "l", "o", "r">>,
                        <<"D", "e", "s", "c", "r", "i", "p", "t", "i", "o",
                          "n">> >>,
       rows |-> { << <<"f", "0", "0">>, <<"d">> >> }],
      [fieldnames |-> << <<"N", "a", "m", "e">>,
                        <<"H", "e", "x", " ", "C", "o", "d", "e", " ",
                          "C", "o", "l", "o", "r">>,
                        <<"D", "e", "s", "c", "r", "i", "p", "t", "i", "o",
                          "n">> >>,
       rows |-> MetaRows],
      [fieldnames |-> << <<"C", "l", "u", "s", "t", "e", "r">>,
                        <<"B", "l", "u", "r", "b">> >>,
       rows |-> { << <<"A">>, <<"d", "<">> >>,
                 << <<>>, <<"d">> >> }] }

\* the metadata file: absent, or a header row and at most MaxMetaRows rows
NoFile == [exists |-> FALSE, fieldnames |-> <<>>, rows |-> <<>>]

MetaFiles ==
    {NoFile} \cup
    UNION {{[exists |-> TRUE, fieldnames |-> l.fieldnames, rows |-> rs] :
                rs \in SeqsUpTo(l.rows, MaxMetaRows)} : l \in MetaLayouts}

----------------------------------------------------------------------------
(* csv.DictReader                                                          *)

\* row.get(col): the row is dict(zip(fieldnames, cells)), so of two columns
\* with the same header the later one's cell is the value; None when no
\* column has that header
RowGet(fnames, row, col) ==
    LET at == {i \in 1..Len(fnames) : fnames[i] = col}
    IN  IF at = {} THEN None
        ELSE row[CHOOSE i \in at : \A j \in at : j <= i]

\* (row.get(col) or "").strip() if col else ""
Cell(fnames, row, col) ==
    IF col = None \/ col = <<>> THEN <<>>
    ELSE LET v == RowGet(fnames, row, col)
         IN  IF v = None THEN <<>> ELSE Strip(v)

----------------------------------------------------------------------------
(* read_rows                                                               *)

\* str.split(","): the pieces between the commas, empty pieces included
RECURSIVE SplitFrom(_, _)
SplitFrom(s, piece) ==
    IF s = <<>> THEN <<piece>>
    ELSE IF Head(s) = "," THEN <<piece>> \o SplitFrom(Tail(s), <<>>)
    ELSE SplitFrom(Tail(s), Append(piece, Head(s)))

Split(s) == SplitFrom(s, <<>>)

\* [c.strip() for c in pieces if c.strip()]
RECURSIVE StripKeep(_)
StripKeep(pieces) ==
    IF pieces = <<>> THEN <<>>
    ELSE LET c == Strip(Head(pieces))
         IN  IF c # <<>> THEN <<c>> \o StripKeep(Tail(pieces))
             ELSE StripKeep(Tail(pieces))

\* CharsList without the `if c.strip()` filter
RECURSIVE StripAll(_)
StripAll(pieces) ==
    IF pieces = <<>> THEN <<>>
    ELSE <<Strip(Head(pieces))>> \o StripAll(Tail(pieces))

CharsList_KeepsEmpty(raw_chars) ==
    IF raw_chars # <<>> THEN StripAll(Split(raw_chars)) ELSE <<>>

\* chars_list
CharsList(raw_chars) ==
    IF raw_chars # <<>> THEN StripKeep(Split(raw_chars)) ELSE <<>>

\* the four find_col calls of read_rows
ResolveColumns(fnames) ==
    [name  |-> find_col(fnames, NAME_CANDIDATES),
     tag   |-> find_col(fnames, TAG_CANDIDATES),
     url   |-> find_col(fnames, URL_CANDIDATES),
     chars |-> find_col(fnames, CHARS_CANDIDATES)]

NoColumns == [name |-> None, tag |-> None, url |-> None, chars |-> None]

\* SetDefault that puts a new group first
SetDefault_Front(bc, label) ==
    IF \E i \in 1..Len(bc) : bc[i].label = label THEN bc
    ELSE <<[label |-> label, items |-> <<>>]>> \o bc

\* by_cluster.setdefault(label, [])
SetDefault(bc, label) ==
    IF \E i \in 1..Len(bc) : bc[i].label = label THEN bc
    ELSE Append(bc, [label |-> label, items |-> <<>>])

\* by_cluster[label].append(entry)
AppendEntry(bc, label, entry) ==
    [i \in 1..Len(bc) |->
        IF bc[i].label = label
        THEN [bc[i] EXCEPT !.items = Append(@, entry)]
        ELSE bc[i]]

\* ProcessRow that skips a row on an empty Tag only
ProcessRow_KeepsUnnamed(bc, fnames, c, row) ==
    LET raw_name    == Cell(fnames, row, c.name)
        raw_cluster == Cell(fnames, row, c.tag)
        raw_url     == Cell(fnames, row, c.url)
        raw_chars   == Cell(fnames, row, c.chars)
    IN  IF raw_cluster = <<>> THEN bc
        ELSE AppendEntry(SetDefault(bc, raw_cluster), raw_cluster,
                         [name  |-> raw_name,
                          url   |-> raw_url,
                          chars |-> CharsList(raw_chars)])

\* the body of `for row in rdr`
ProcessRow(bc, fnames, c, row) ==
    LET raw_name    == Cell(fnames, row, c.name)
        raw_cluster == Cell(fnames, row, c.tag)
        raw_url     == Cell(fnames, row, c.url)
        raw_chars   == Cell(fnames, row, c.chars)
    IN  IF raw_name = <<>> \/ raw_cluster = <<>> THEN bc
        ELSE AppendEntry(SetDefault(bc, raw_cluster), raw_cluster,
                         [name  |-> raw_name,
                          url   |-> raw_url,
                          chars |-> CharsList(raw_chars)])

----------------------------------------------------------------------------
(* read_cluster_info                                                       *)

\* normalize_hex that adds no "#"
normalize_hex_NoPrefix(val) == Strip(val)

normalize_hex(val) ==
    LET s == Strip(val)
    IN  IF s = <<>> THEN <<>>
        ELSE IF ~StartsWith(s, <<"#">>) THEN <<"#">> \o s
        ELSE s

\* out[name] = value
DictPut(out, name, value) ==
    [n \in (DOMAIN out) \cup {name} |-> IF n = name THEN value ELSE out[n]]

EmptyDict == [n \in {} |-> <<>>]

\* the body of `for row in rdr`, over all the rows
RECURSIVE MetaRowsInto(_, _, _, _)
MetaRowsInto(out, fnames, c, rs) ==
    IF rs = <<>> THEN out
    ELSE LET row   == Head(rs)
             name  == Cell(fnames, row, c.name)
             color == IF c.color # None /\ c.color # <<>>
                      THEN normalize_hex(Cell(fnames, row, c.color))
                      ELSE <<>>
             desc  == Cell(fnames, row, c.desc)
         IN  IF name = <<>> THEN MetaRowsInto(out, fnames, c, Tail(rs))
             ELSE MetaRowsInto(
                      DictPut(out, name, [color |-> color, desc |-> desc]),
                      fnames, c, Tail(rs))

read_cluster_info(file) ==
    IF ~file.exists THEN EmptyDict
    ELSE IF file.fieldnames = <<>> THEN EmptyDict
    ELSE LET c == [name  |-> find_col(file.fieldnames, META_NAME_CANDIDATES),
                   color |-> find_col(file.fieldnames, META_COLOR_CANDIDATES),
                   desc  |-> find_col(file.fieldnames, META_DESC_CANDIDATES)]
         IN  IF c.name = None \/ c.name = <<>> THEN EmptyDict
             ELSE MetaRowsInto(EmptyDict, file.fieldnames, c, file.rows)

----------------------------------------------------------------------------
(* build_html.  The fragment is the list `parts`; a part is a record of    *)
(* the template it is and of the values interpolated into it.              *)

\* the character U+2014
EmDash == <<"emdash">>

\* html.escape(s, quote=True), one character
EscapeChar(c) ==
    CASE c = "&"  -> <<"&", "a", "m", "p", ";">>
      [] c = "<"  -> <<"&", "l", "t", ";">>
      [] c = ">"  -> <<"&", "g", "t", ";">>
      [] c = "\"" -> <<"&", "q", "u", "o", "t", ";">>
      [] c = "'"  -> <<"&", "#", "x", "2", "7", ";">>
      [] OTHER    -> <<c>>

RECURSIVE Escape(_)
Escape(s) ==
    IF s = <<>> THEN <<>> ELSE EscapeChar(Head(s)) \o Escape(Tail(s))

\* ", ".join(escape(c) for c in chars)
RECURSIVE JoinEscaped(_)
JoinEscaped(chars) ==
    IF chars = <<>> THEN <<>>
    ELSE IF Len(chars) = 1 THEN Escape(Head(chars))
    ELSE Escape(Head(chars)) \o <<",", " ">> \o JoinEscaped(Tail(chars))

\* dict.get(key, default)
DictGet(d, key, default) == IF key \in DOMAIN d THEN d[key] ELSE default

\* the dict {}: .get of either key is None
EmptyInfo == [color |-> None, desc |-> None]

\* info.get("color") or DEFAULT_COLOR
ClusterColor(info) ==
    IF info.color = None \/ info.color = <<>> THEN DEFAULT_COLOR
    ELSE info.color

\* info.get("desc") or ""
ClusterDesc(info) ==
    IF info.desc = None \/ info.desc = <<>> THEN <<>> ELSE info.desc

\* chars_txt
CharsText(chars) == IF chars # <<>> THEN JoinEscaped(chars) ELSE EmDash

\* LinkCell without the `if url` test
LinkCell_AlwaysAnchor(entry_url, color) ==
    [kind |-> "a", href |-> Escape(Strip(entry_url)),
     color |-> Escape(color), text |-> "READ MORE"]

\* link_cell
LinkCell(entry_url, color) ==
    LET url == Strip(entry_url)
    IN  IF url # <<>>
        THEN [kind |-> "a", href |-> Escape(url), color |-> Escape(color),
              text |-> "READ MORE"]
        ELSE [kind |-> "span", text |-> EmDash]

\* the parts of one turn of `for entry in items`
EntryParts(entry, color) ==
    << [tag |-> "tr"],
       [tag |-> "td_name", color |-> Escape(color),
        text |-> Escape(entry.name)],
       [tag |-> "td_chars", color |-> Escape(color),
        text |-> CharsText(entry.chars)],
       [tag |-> "td_link", color |-> Escape(color),
        cell |-> LinkCell(entry.url, color)],
       [tag |-> "/tr"] >>

RECURSIVE ItemsParts(_, _)
ItemsParts(items, color) ==
    IF items = <<>> THEN <<>>
    ELSE EntryParts(Head(items), color) \o ItemsParts(Tail(items), color)

\* the parts of one turn of `for cluster, items in by_cluster.items()`
ClusterParts(cluster, items, ci) ==
    LET info  == DictGet(ci, cluster, EmptyInfo)
        color == ClusterColor(info)
        desc  == ClusterDesc(info)
    IN  << [tag |-> "cluster", color |-> Escape(color),
            text |-> Escape(cluster)] >>
        \o (IF desc # <<>>
            THEN << [tag |-> "caption", color |-> Escape(color),
                     text |-> Escape(desc)] >>
            ELSE <<>>)
        \o << [tag |-> "/div"],
              [tag |-> "table", color |-> Escape(color)],
              [tag |-> "thead"],
              [tag |-> "th", color |-> Escape(color), text |-> "Name"],
              [tag |-> "th", color |-> Escape(color), text |-> "Characters"],
              [tag |-> "th", color |-> Escape(color), text |-> "Link"],
              [tag |-> "/thead"],
              [tag |-> "tbody"] >>
        \o ItemsParts(items, color)
        \o << [tag |-> "/table"], [tag |-> "spacer"] >>

RECURSIVE ClustersParts(_, _)
ClustersParts(bc, ci) ==
    IF bc = <<>> THEN <<>>
    ELSE ClusterParts(Head(bc).label, Head(bc).items, ci)
         \o ClustersParts(Tail(bc), ci)

build_html(bc, ci) == << [tag |-> "note"] >> \o ClustersParts(bc, ci)

----------------------------------------------------------------------------
(* main.  A diagnostic or a printed line is its format string and the      *)
(* values interpolated into it.                                            *)

\* the directory of the script
Here == <<"/", "m", "a", "p">>

\* tags_list.html before the run
PreviousOutput == << [tag |-> "previous"] >>

\* sum(len(v) for v in by_cluster.values())
RECURSIVE ItemCount(_)
ItemCount(bc) ==
    IF bc = <<>> THEN 0 ELSE Len(Head(bc).items) + ItemCount(Tail(bc))

\* print(..., file=sys.stderr); sys.exit(1), and raise SystemExit(text)
Fail(text, args) ==
    /\ stderr' = Append(stderr, [text |-> text, args |-> args])
    /\ exit_status' = 1
    /\ pc' = "done"

Init ==
    /\ pc = "start"
    /\ input_exists \in BOOLEAN
    /\ fieldnames = <<>>
    /\ cols = NoColumns
    /\ rows = <<>>
    /\ by_cluster = <<>>
    /\ meta = NoFile
    /\ cluster_info = EmptyDict
    /\ html = <<>>
    /\ out_file = PreviousOutput
    /\ out_writes = 0
    /\ stdout = <<>>
    /\ stderr = <<>>
    /\ exit_status = 0
    /\ fc_header = <<>>
    /\ fc_cands = <<>>
    /\ fc_called = FALSE
    /\ fc_result = None

\* main: `if not csv_path.exists()`
CheckInput ==
    /\ pc = "start"
    /\ IF ~input_exists
       THEN Fail("Cannot find {} in {}", <<INPUT_NAME, Here>>)
       ELSE /\ pc' = "open"
            /\ UNCHANGED <<stderr, exit_status>>
    /\ UNCHANGED <<input_exists, fieldnames, cols, rows, by_cluster, meta,
                   cluster_info, html, out_file, out_writes, stdout>>
    /\ UNCHANGED fc_vars

\* read_rows, up to the loop: the header row and the four columns
OpenCsv ==
    /\ pc = "open"
    /\ \E h \in InputHeaders :
        /\ fieldnames' = h
        /\ IF h = <<>>
           THEN /\ Fail("CSV has no header row.", <<>>)
                /\ UNCHANGED cols
           ELSE LET c == ResolveColumns(h)
                IN  /\ cols' = c
                    /\ IF c.name = None \/ c.name = <<>>
                          \/ c.tag = None \/ c.tag = <<>>
                       THEN Fail("Need NAME and TAG/CLUSTER columns (case-insensitive).",
                                 <<>>)
                       ELSE /\ pc' = "rows"
                            /\ UNCHANGED <<stderr, exit_status>>
    /\ UNCHANGED <<input_exists, rows, by_cluster, meta, cluster_info, html,
                   out_file, out_writes, stdout>>
    /\ UNCHANGED fc_vars

\* read_rows: one turn of `for row in rdr`
ReadRow ==
    /\ pc = "rows"
    /\ Len(rows) < MaxRows
    /\ \E row \in RowsFor(fieldnames) :
        /\ rows' = Append(rows, row)
        /\ by_cluster' = ProcessRow(by_cluster, fieldnames, cols, row)
    /\ UNCHANGED <<pc, input_exists, fieldnames, cols, meta, cluster_info,
                   html, out_file, out_writes, stdout, stderr, exit_status>>
    /\ UNCHANGED fc_vars

\* EndOfRows without `if not by_cluster`
EndOfRows_NoEmptyCheck ==
    /\ pc = "rows"
    /\ pc' = "meta"
    /\ UNCHANGED <<input_exists, fieldnames, cols, rows, by_cluster, meta,
                   cluster_info, html, out_file, out_writes, stdout, stderr,
                   exit_status>>
    /\ UNCHANGED fc_vars

\* EndOfRows that writes the fragment of no group before it fails
EndOfRows_WritesEmpty ==
    /\ pc = "rows"
    /\ IF by_cluster = <<>>
       THEN /\ Fail("No valid rows found.", <<>>)
            /\ out_file' = build_html(<<>>, EmptyDict)
            /\ out_writes' = out_writes + 1
       ELSE /\ pc' = "meta"
            /\ UNCHANGED <<stderr, exit_status, out_file, out_writes>>
    /\ UNCHANGED <<input_exists, fieldnames, cols, rows, by_cluster, meta,
                   cluster_info, html, stdout>>
    /\ UNCHANGED fc_vars

\* read_rows returns at the end of the file; main: `if not by_cluster`
EndOfRows ==
    /\ pc = "rows"
    /\ IF by_cluster = <<>>
       THEN Fail("No valid rows found.", <<>>)
       ELSE /\ pc' = "meta"
            /\ UNCHANGED <<stderr, exit_status>>
    /\ UNCHANGED <<input_exists, fieldnames, cols, rows, by_cluster, meta,
                   cluster_info, html, out_file, out_writes, stdout>>
    /\ UNCHANGED fc_vars

\* main: cluster_info = read_cluster_info(here / CLUSTER_INFO_NAME)
ReadClusterInfo ==
    /\ pc = "meta"
    /\ \E file \in MetaFiles :
        /\ meta' = file
        /\ cluster_info' = read_cluster_info(file)
    /\ pc' = "render"
    /\ UNCHANGED <<input_exists, fieldnames, cols, rows, by_cluster, html,
                   out_file, out_writes, stdout, stderr, exit_status>>
    /\ UNCHANGED fc_vars

\* main: html = build_html(by_cluster, cluster_info)
BuildHtml ==
    /\ pc = "render"
    /\ html' = build_html(by_cluster, cluster_info)
    /\ pc' = "write"
    /\ UNCHANGED <<input_exists, fieldnames, cols, rows, by_cluster, meta,
                   cluster_info, out_file, out_writes, stdout, stderr,
                   exit_status>>
    /\ UNCHANGED fc_vars

\* main: out_path.write_text(html, encoding="utf-8")
WriteOutput ==
    /\ pc = "write"
    /\ out_file' = html
    /\ out_writes' = out_writes + 1
    /\ pc' = "print"
    /\ UNCHANGED <<input_exists, fieldnames, cols, rows, by_cluster, meta,
                   cluster_info, html, stdout, stderr, exit_status>>
    /\ UNCHANGED fc_vars

\* main: the summary line, and the return from main
PrintSummary ==
    /\ pc = "print"
    /\ stdout' = Append(stdout,
                        [text |-> "Wrote {}: {} items, {} clusters.",
                         args |-> <<OUTPUT_NAME, ItemCount(by_cluster),
                                    Len(by_cluster)>>])
    /\ exit_status' = 0
    /\ pc' = "done"
    /\ UNCHANGED <<input_exists, fieldnames, cols, rows, by_cluster, meta,
                   cluster_info, html, out_file, out_writes, stderr>>
    /\ UNCHANGED fc_vars

Next ==
    \/ CheckInput
    \/ OpenCsv
    \/ ReadRow
    \/ EndOfRows
    \/ ReadClusterInfo
    \/ BuildHtml
    \/ WriteOutput
    \/ PrintSummary

Spec == Init /\ [][Next]_vars

----------------------------------------------------------------------------
(* find_col alone, on any header row and any candidate list.               *)

\* header texts: case and whitespace variants of one another, a header that
\* contains another, and an unrelated one
FindColHeaders ==
    { <<"T", "a", "g">>,
      <<" ", "t", "a", "g">>,
      <<"T", "a", "g", "s", " ">>,
      <<"t", "a", "g", "s">>,
      <<"S", "u", "b", "t", "a", "g">>,
      <<"N", "a", "m", "e">> }

\* candidates; none is blank, as at every call of find_col in the script
FindColCandidates ==
    { <<"t", "a", "g">>,
      <<" ", "T", "A", "G", " ">>,
      <<"t", "a", "g", "s">>,
      <<"n", "a", "m", "e">>,
      <<"t", "i", "t", "l", "e">> }

InitFindCol ==
    /\ fc_header \in SeqsUpTo(FindColHeaders, MaxHeaderCols)
    /\ fc_cands \in SeqsUpTo(FindColCandidates, MaxCandidates)
    /\ fc_called = FALSE
    /\ fc_result = None
    /\ pc = "start"
    /\ input_exists = TRUE
    /\ fieldnames = <<>>
    /\ cols = NoColumns
    /\ rows = <<>>
    /\ by_cluster = <<>>
    /\ meta = NoFile
    /\ cluster_info = EmptyDict
    /\ html = <<>>
    /\ out_file = PreviousOutput
    /\ out_writes = 0
    /\ stdout = <<>>
    /\ stderr = <<>>
    /\ exit_status = 0

\* a call of find_col
CallFindCol ==
    /\ ~fc_called
    /\ fc_result' = find_col(fc_header, fc_cands)
    /\ fc_called' = TRUE
    /\ UNCHANGED <<fc_header, fc_cands>>
    /\ UNCHANGED run_vars

NextFindCol == CallFindCol

SpecFindCol == InitFindCol /\ [][NextFindCol]_vars

----------------------------------------------------------------------------
(* What the properties below are stated with.                              *)

\* s without its leading and trailing whitespace
Trimmed(s) ==
    LET inked == {i \in 1..Len(s) : s[i] \notin Whitespace}
    IN  IF inked = {} THEN <<>>
        ELSE SubSeq(s, CHOOSE i \in inked : \A j \in inked : i <= j,
                       CHOOSE i \in inked : \A j \in inked : j <= i)

\* the k-th smallest element of a set of numbers
Nth(S, k) == CHOOSE i \in S : Cardinality({j \in S : j < i}) = k - 1

\* the trimmed cell of a row of the input file under a resolved column
TrimmedCell(row, col) ==
    IF col = None THEN <<>> ELSE Trimmed(RowGet(fieldnames, row, col))

NameCell(row) == TrimmedCell(row, cols.name)
TagCell(row) == TrimmedCell(row, cols.tag)

\* the rows read so far whose Name and Tag are both non-empty once trimmed
ValidRows ==
    {i \in 1..Len(rows) : NameCell(rows[i]) # <<>> /\ TagCell(rows[i]) # <<>>}

\* the valid rows of one tag
RowsTagged(t) == {i \in ValidRows : TagCell(rows[i]) = t}

\* the row the k-th entry of group g comes from
RowOfEntry(g, k) == rows[Nth(RowsTagged(by_cluster[g].label), k)]

Groups == 1..Len(by_cluster)

\* read_rows is in its loop, or at its end: by_cluster is what it returns
\* for the rows read so far
InReadRows == pc = "rows"

----------------------------------------------------------------------------
(* C1: read_rows keeps the groups in the order in which their tags first   *)
(* appear among the valid rows, and the entries of a group in the order of *)
(* their rows.                                                             *)

\* C1: every valid row's tag has a group, the groups are ordered by the
\* first valid row of their tag, and the k-th entry of a group is the k-th
\* valid row of that tag
C1_OrderPreserved ==
    InReadRows =>
    /\ \A i \in ValidRows :
          \E g \in Groups : by_cluster[g].label = TagCell(rows[i])
    /\ \A g \in Groups : RowsTagged(by_cluster[g].label) # {}
    /\ \A g, h \in Groups :
          g < h => Nth(RowsTagged(by_cluster[g].label), 1)
                     < Nth(RowsTagged(by_cluster[h].label), 1)
    /\ \A g \in Groups :
          \A k \in 1..Len(by_cluster[g].items) :
              /\ k <= Cardinality(RowsTagged(by_cluster[g].label))
              /\ by_cluster[g].items[k].name = NameCell(RowOfEntry(g, k))
              /\ by_cluster[g].items[k].url
                    = TrimmedCell(RowOfEntry(g, k), cols.url)

\* tags [B, A, B]: two groups, the first holding the 1st and the 3rd row
C1_Witness ==
    /\ InReadRows
    /\ Len(rows) = 3
    /\ ValidRows = {1, 2, 3}
    /\ Len(by_cluster) = 2
    /\ TagCell(rows[1]) = by_cluster[1].label
    /\ TagCell(rows[2]) = by_cluster[2].label
    /\ TagCell(rows[3]) = by_cluster[1].label
    /\ Len(by_cluster[1].items) = 2
    /\ by_cluster[1].items[1].name = NameCell(rows[1])
    /\ by_cluster[1].items[2].name = NameCell(rows[3])
    /\ NameCell(rows[1]) # NameCell(rows[3])

----------------------------------------------------------------------------
(* C2: the valid rows, and only they, make the entries.                    *)

\* C2: no group is empty or unlabelled, no entry is unnamed, no two groups
\* share a label, the labels are exactly the trimmed tags of the valid rows,
\* a group holds as many entries as there are valid rows of its tag, and
\* there are as many entries as valid rows
C2_ValidRowsMakeEntries ==
    InReadRows =>
    /\ \A g \in Groups :
          /\ by_cluster[g].label # <<>>
          /\ by_cluster[g].items # <<>>
          /\ \A k \in 1..Len(by_cluster[g].items) :
                by_cluster[g].items[k].name # <<>>
          /\ Len(by_cluster[g].items)
                = Cardinality(RowsTagged(by_cluster[g].label))
    /\ \A g, h \in Groups :
          g # h => by_cluster[g].label # by_cluster[h].label
    /\ {by_cluster[g].label : g \in Groups}
          = {TagCell(rows[i]) : i \in ValidRows}
    /\ ItemCount(by_cluster) = Cardinality(ValidRows)

\* a row with an empty Name and a non-empty Tag was dropped, and two tags
\* that differ in letter case only made two groups
C2_Witness ==
    /\ InReadRows
    /\ \E i \in 1..Len(rows) :
          NameCell(rows[i]) = <<>> /\ TagCell(rows[i]) # <<>>
    /\ \E g, h \in Groups :
          /\ by_cluster[g].label # by_cluster[h].label
          /\ Lower(by_cluster[g].label) = Lower(by_cluster[h].label)

----------------------------------------------------------------------------
(* C8: the Characters list of an entry.                                    *)

\* the places that bound the comma-free pieces of a cell
Cuts(cell) ==
    {0} \cup {i \in 1..Len(cell) : cell[i] = ","} \cup {Len(cell) + 1}

\* the j-th comma-free piece of a cell, trimmed
TrimmedPiece(cell, j) ==
    Trimmed(SubSeq(cell, Nth(Cuts(cell), j) + 1, Nth(Cuts(cell), j + 1) - 1))

\* the trimmed pieces of a cell that are not empty, in their order
PiecesKept(cell) ==
    LET kept == {j \in 1..(Cardinality(Cuts(cell)) - 1) :
                    TrimmedPiece(cell, j) # <<>>}
    IN  [m \in 1..Cardinality(kept) |-> TrimmedPiece(cell, Nth(kept, m))]

\* the Characters cell of a row as the file holds it; empty when the column
\* is unresolved
CharactersCell(row) ==
    IF cols.chars = None THEN <<>> ELSE RowGet(fieldnames, row, cols.chars)

\* C8: the Characters list of every entry is the comma-free pieces of its
\* row's Characters cell, trimmed, without the empty ones, in their order;
\* no character is empty or padded with whitespace
C8_CharactersSplit ==
    InReadRows =>
    \A g \in Groups :
        \A k \in 1..Len(by_cluster[g].items) :
            LET chars == by_cluster[g].items[k].chars
            IN  /\ k <= Cardinality(RowsTagged(by_cluster[g].label))
                /\ chars = PiecesKept(CharactersCell(RowOfEntry(g, k)))
                /\ \A n \in 1..Len(chars) :
                      /\ chars[n] # <<>>
                      /\ chars[n][1] \notin Whitespace
                      /\ chars[n][Len(chars[n])] \notin Whitespace
                /\ Trimmed(CharactersCell(RowOfEntry(g, k))) = <<>>
                      => chars = <<>>

\* "Ann, Bob,, Cleo " gave ["Ann", "Bob", "Cleo"], and a cell of whitespace
\* and a comma gave the empty list
C8_Witness ==
    /\ InReadRows
    /\ \E g \in Groups :
          \E k \in 1..Len(by_cluster[g].items) :
              /\ CharactersCell(RowOfEntry(g, k))
                    = <<"A", "n", "n", ",", " ", "B", "o", "b", ",", ",",
                        " ", "C", "l", "e", "o", " ">>
              /\ by_cluster[g].items[k].chars
                    = << <<"A", "n", "n">>, <<"B", "o", "b">>,
                         <<"C", "l", "e", "o">> >>
    /\ \E g \in Groups :
          \E k \in 1..Len(by_cluster[g].items) :
              /\ CharactersCell(RowOfEntry(g, k)) = <<" ", ",", " ">>
              /\ by_cluster[g].items[k].chars = <<>>

----------------------------------------------------------------------------
(* C9: the table rows of the fragment.                                     *)

\* the text an HTML parser reads from escaped text
RECURSIVE Unescape(_)
Unescape(s) ==
    LET rest(n) == Unescape(SubSeq(s, n + 1, Len(s)))
    IN  IF s = <<>> THEN <<>>
        ELSE IF StartsWith(s, <<"&", "a", "m", "p", ";">>)
             THEN <<"&">> \o rest(5)
        ELSE IF StartsWith(s, <<"&", "l", "t", ";">>)
             THEN <<"<">> \o rest(4)
        ELSE IF StartsWith(s, <<"&", "g", "t", ";">>)
             THEN <<">">> \o rest(4)
        ELSE IF StartsWith(s, <<"&", "q", "u", "o", "t", ";">>)
             THEN <<"\"">> \o rest(6)
        ELSE IF StartsWith(s, <<"&", "#", "x", "2", "7", ";">>)
             THEN <<"'">> \o rest(6)
        ELSE <<Head(s)>> \o rest(1)

\* the entries of all the groups, group after group
RECURSIVE FlatEntries(_)
FlatEntries(bc) ==
    IF bc = <<>> THEN <<>> ELSE Head(bc).items \o FlatEntries(Tail(bc))

\* a group heading followed by one line per entry, group after group
RECURSIVE Outline(_)
Outline(bc) ==
    IF bc = <<>> THEN <<>>
    ELSE << <<"cluster", Head(bc).label>> >>
         \o [k \in 1..Len(Head(bc).items) |->
                <<"td_name", Head(bc).items[k].name>>]
         \o Outline(Tail(bc))

\* the characters joined with a comma and a space
RECURSIVE CommaJoined(_)
CommaJoined(chars) ==
    IF Len(chars) = 1 THEN chars[1]
    ELSE chars[1] \o <<",", " ">> \o CommaJoined(Tail(chars))

IsHeadingOrName(part) == part.tag \in {"cluster", "td_name"}
IsRow(part) == part.tag = "tr"
IsCharsCell(part) == part.tag = "td_chars"
IsLinkCell(part) == part.tag = "td_link"

\* build_html has just returned: html is the fragment of by_cluster and
\* cluster_info
Rendered == pc = "write"

\* C9: the fragment holds the group headings in GroupIndex order, each
\* followed by one table row per entry in entry order; a row's Link cell
\* is an anchor to the entry's URL when the URL is not empty once trimmed
\* and the dash otherwise; its Characters cell is the comma-joined list when
\* the list is not empty and the dash otherwise
C9_TableRows ==
    Rendered =>
        LET entries == FlatEntries(by_cluster)
            outline == SelectSeq(html, IsHeadingOrName)
            links   == SelectSeq(html, IsLinkCell)
            chars   == SelectSeq(html, IsCharsCell)
        IN  /\ [n \in 1..Len(outline) |->
                   <<outline[n].tag, Unescape(outline[n].text)>>]
                  = Outline(by_cluster)
            /\ Len(SelectSeq(html, IsRow)) = Len(entries)
            /\ Len(links) = Len(entries)
            /\ Len(chars) = Len(entries)
            /\ \A n \in 1..Len(entries) :
                  /\ IF Trimmed(entries[n].url) # <<>>
                     THEN /\ links[n].cell.kind = "a"
                          /\ Unescape(links[n].cell.href) = entries[n].url
                          /\ links[n].cell.text = "READ MORE"
                     ELSE /\ links[n].cell.kind = "span"
                          /\ links[n].cell.text = EmDash
                  /\ IF entries[n].chars # <<>>
                     THEN Unescape(chars[n].text)
                             = CommaJoined(entries[n].chars)
                     ELSE chars[n].text = EmDash

\* a group of two entries: the first with a link and three characters, the
\* second with the dash in both cells
C9_Witness ==
    /\ Rendered
    /\ \E g \in Groups :
          /\ Len(by_cluster[g].items) = 2
          /\ by_cluster[g].items[1].url = <<"u", "&", "v">>
          /\ Len(by_cluster[g].items[1].chars) = 3
          /\ by_cluster[g].items[2].url = <<>>
          /\ by_cluster[g].items[2].chars = <<>>
    /\ \E n \in 1..(Len(html) - 5) :
          /\ html[n].tag = "td_link"
          /\ html[n].cell.kind = "a"
          /\ html[n + 5].tag = "td_link"
          /\ html[n + 5].cell.kind = "span"
          /\ html[n + 4].tag = "td_chars"
          /\ html[n + 4].text = EmDash

----------------------------------------------------------------------------
(* C10: the colour and the caption of a group.                             *)

\* the rows of the metadata file whose trimmed name is the label
RowsNamed(label, name_col) ==
    IF ~meta.exists \/ meta.fieldnames = <<>> \/ name_col = None THEN {}
    ELSE {r \in 1..Len(meta.rows) :
             Trimmed(RowGet(meta.fieldnames, meta.rows[r], name_col))
                = label}

\* the cell the last of these rows has in a column, trimmed; empty when
\* there is no such row or no such column
LastCellGiven(named, col) ==
    IF named = {} \/ col = None THEN <<>>
    ELSE LET last == CHOOSE r \in named : \A q \in named : q <= r
         IN  Trimmed(RowGet(meta.fieldnames, meta.rows[last], col))

\* a colour cell with a leading "#"
WithHash(cell) ==
    IF cell = <<>> THEN <<>>
    ELSE IF cell[1] = "#" THEN cell ELSE <<"#">> \o cell

HasColour(part) == "color" \in DOMAIN part

\* C10: the colour of a group is not empty and starts with "#"; it is the
\* colour cell of the last row of the metadata file whose trimmed name is
\* the label, trimmed and with a leading "#", when that is not empty, and
\* the default colour otherwise; every coloured part of the group has it;
\* and a group whose description is missing or empty has no caption
C10_GroupColour ==
    Rendered =>
        LET name_col  == find_col(meta.fieldnames, META_NAME_CANDIDATES)
            color_col == find_col(meta.fieldnames, META_COLOR_CANDIDATES)
            desc_col  == find_col(meta.fieldnames, META_DESC_CANDIDATES)
            coloured  == SelectSeq(html, HasColour)
        IN  /\ \A n \in 1..Len(html) :
                  html[n].tag = "cluster" =>
                      LET label  == Unescape(html[n].text)
                          colour == Unescape(html[n].color)
                          named  == RowsNamed(label, name_col)
                          given  == WithHash(LastCellGiven(named, color_col))
                      IN  /\ colour # <<>>
                          /\ colour[1] = "#"
                          /\ colour = IF given # <<>> THEN given
                                      ELSE <<"#", "f", "f", "1", "4", "4", "7">>
                          /\ LastCellGiven(named, desc_col) = <<>>
                                => html[n + 1].tag # "caption"
            /\ \A m \in 2..Len(coloured) :
                  /\ coloured[m].tag # "cluster"
                        => coloured[m].color = coloured[m - 1].color
                  /\ (coloured[m].tag = "td_link"
                        /\ coloured[m].cell.kind = "a")
                        => coloured[m].cell.color = coloured[m].color

\* the label is listed twice and the later row's colour, "#0f0" once
\* trimmed, is the group's, without a caption as that row's description is
\* blank; the other group is not listed and has the default colour
C10_Witness ==
    /\ Rendered
    /\ Len(by_cluster) = 2
    /\ Cardinality(RowsNamed(by_cluster[1].label,
                              find_col(meta.fieldnames,
                                       META_NAME_CANDIDATES))) = 2
    /\ RowsNamed(by_cluster[2].label,
                 find_col(meta.fieldnames, META_NAME_CANDIDATES)) = {}
    /\ \E n \in 1..(Len(html) - 1) :
          /\ html[n].tag = "cluster"
          /\ html[n].text = by_cluster[1].label
          /\ html[n].color = <<"#", "0", "f", "0">>
          /\ html[n + 1].tag # "caption"
    /\ \E n \in 1..Len(html) :
          /\ html[n].tag = "cluster"
          /\ html[n].text = by_cluster[2].label
          /\ html[n].color = DEFAULT_COLOR

----------------------------------------------------------------------------
(* C5: how a run ends.                                                     *)

\* the header of the input file does not give both mandatory columns
MandatoryUnresolved ==
    \/ find_col(fieldnames, NAME_CANDIDATES) = None
    \/ find_col(fieldnames, TAG_CANDIDATES) = None

\* the run is one of the three the claim names as fatal
Fatal == ~input_exists \/ MandatoryUnresolved \/ ValidRows = {}

\* C5: a run ends with a non-zero status and a diagnostic on stderr exactly
\* when the input file is missing, the header does not give both mandatory
\* columns, or no row is valid; every other run ends with status zero after
\* printing the number of valid rows and the number of their distinct
\* trimmed tags
C5_ExitStatus ==
    pc = "done" =>
        /\ Fatal <=> (exit_status # 0 /\ stderr # <<>>)
        /\ ~Fatal =>
              /\ exit_status = 0
              /\ Len(stdout) = 1
              /\ stdout[1].text = "Wrote {}: {} items, {} clusters."
              /\ stdout[1].args[2] = Cardinality(ValidRows)
              /\ stdout[1].args[3]
                    = Cardinality({TagCell(rows[i]) : i \in ValidRows})

\* without a metadata file, a run over three rows, one of them dropped,
\* ended with status zero
C5_Witness ==
    /\ pc = "done"
    /\ exit_status = 0
    /\ ~meta.exists
    /\ Len(rows) = 3
    /\ Cardinality(ValidRows) = 2
    /\ stdout # <<>>

----------------------------------------------------------------------------
(* C6: the diagnostic of an unresolved mandatory column.                   *)

\* C6: when the Name or the Tag column is not resolved, the run ends with
\* a diagnostic that holds the headers found in the file
C6_DiagnosticListsHeaders ==
    (pc = "done" /\ input_exists /\ fieldnames # <<>> /\ MandatoryUnresolved)
        => /\ exit_status # 0
           /\ \E d \in 1..Len(stderr) :
                 \E a \in 1..Len(stderr[d].args) :
                     stderr[d].args[a] = fieldnames

----------------------------------------------------------------------------
(* C7: the output file.                                                    *)

\* C7: the output file is written at most once, with the fragment, once
\* the input file was found, both mandatory columns resolved, a valid row
\* grouped and the fragment built from the groups and the metadata, and
\* nothing but the summary follows; a run that ends in an error leaves the
\* file as it was
C7_OutputWrittenLast ==
    /\ out_writes <= 1
    /\ out_writes = 0 => out_file = PreviousOutput
    /\ out_writes = 1 =>
          /\ pc \in {"print", "done"}
          /\ input_exists
          /\ cols.name # None /\ cols.tag # None
          /\ Len(rows) > 0 /\ by_cluster # <<>>
          /\ html # <<>>
          /\ out_file = html
          /\ stderr = <<>>
    /\ (pc = "done" /\ (exit_status # 0 \/ stderr # <<>>)) =>
          /\ out_writes = 0
          /\ out_file = PreviousOutput

\* a run that read rows, none of them valid, ended in an error with the
\* output file as it was
C7_Witness ==
    /\ pc = "done"
    /\ exit_status # 0
    /\ rows # <<>>
    /\ out_file = PreviousOutput
    /\ out_writes = 0

----------------------------------------------------------------------------
(* C3: what find_col returns.                                              *)

\* the candidate is the normalized text of the header, or is inside it
Matches(cand, header) ==
    \/ Normalize(header) = Normalize(cand)
    \/ IsSubstring(Normalize(cand), Normalize(header))

\* C3: find_col returns None when no candidate matches a header; else, for
\* the first candidate that matches one, a header whose normalized text is
\* the candidate's when there is one, and otherwise the first header, in
\* declaration order, whose normalized text contains the candidate's
C3_FirstHeaderInDeclarationOrder ==
    fc_called =>
        LET resolving == {c \in 1..Len(fc_cands) :
                             \E i \in 1..Len(fc_header) :
                                 Matches(fc_cands[c], fc_header[i])}
        IN  IF resolving = {} THEN fc_result = None
            ELSE LET cand  == fc_cands[Nth(resolving, 1)]
                     exact == {i \in 1..Len(fc_header) :
                                  Normalize(fc_header[i]) = Normalize(cand)}
                     inside == {i \in 1..Len(fc_header) :
                                   Matches(cand, fc_header[i])}
                 IN  IF exact # {}
                     THEN \E i \in exact : fc_result = fc_header[i]
                     ELSE fc_result = fc_header[Nth(inside, 1)]

----------------------------------------------------------------------------
(* C4: find_col and letter case and surrounding whitespace.                *)

\* two texts that differ in letter case and in leading and trailing
\* whitespace only
SameButCaseAndSpace(a, b) == Lower(Trimmed(a)) = Lower(Trimmed(b))

\* the lists over U that differ from the list a, place by place, in letter
\* case and in leading and trailing whitespace only
RECURSIVE Variants(_, _)
Variants(a, U) ==
    IF a = <<>> THEN {<<>>}
    ELSE {<<x>> \o rest :
             x \in {u \in U : SameButCaseAndSpace(u, Head(a))},
             rest \in Variants(Tail(a), U)}

\* find_col(h, c) is None if find_col returned None, and else the header at
\* a place where the given header row holds the header find_col returned
SameResolution(h, c) ==
    IF fc_result = None THEN find_col(h, c) = None
    ELSE \E i \in 1..Len(h) :
            fc_header[i] = fc_result /\ find_col(h, c) = h[i]

\* C4: find_col resolves to the header at the same place, or to None, for
\* every header row that differs from the given one in case and surrounding
\* whitespace only, and for every candidate list that differs from the
\* given one in case and surrounding whitespace only
C4_CaseAndSpaceInsensitive ==
    fc_called =>
        /\ \A h \in Variants(fc_header, FindColHeaders) :
              SameResolution(h, fc_cands)
        /\ \A c \in Variants(fc_cands, FindColCandidates) :
              SameResolution(fc_header, c)

\* find_col returned a header, and another header row and another candidate
\* list differ from the given ones in case and whitespace only
C4_Witness ==
    /\ fc_called
    /\ fc_result # None
    /\ Variants(fc_header, FindColHeaders) # {fc_header}
    /\ Variants(fc_cands, FindColCandidates) # {fc_cands}

====
